---- MODULE Spec2Model ----
(***************************************************************************)
(* Saarthi fund data scripts: the AMFI feed parser                         *)
(* (fetch-fund-data-CLEAN.py, update-fund-data-ACTUALLY-FIXED.py) and the  *)
(* MFApi returns enrichment batch (enrich-with-mfapi.py).                  *)
(*                                                                         *)
(* Text is a sequence of one-character strings, so that split, strip,      *)
(* lower, the regular expressions and float() are computed character by    *)
(* character.  A Python None is the empty tuple, any other value v of an   *)
(* optional field is the one-element tuple <<v>>.                          *)
(***************************************************************************)
EXTENDS Integers, Sequences, FiniteSets, TLC

None == <<>>
Some(v) == <<v>>

SetMin(S) == CHOOSE m \in S : \A n \in S : m <= n
SetMax(S) == CHOOSE m \in S : \A n \in S : m >= n

(***************************************************************************)
(* Characters and the str methods the scripts use.                         *)
(***************************************************************************)
DigitChars == <<"0", "1", "2", "3", "4", "5", "6", "7", "8", "9">>
UpperChars == <<"A", "B", "C", "D", "E", "F", "G", "H", "I", "J", "K", "L", "M",
                "N", "O", "P", "Q", "R", "S", "T", "U", "V", "W", "X", "Y", "Z">>
LowerChars == <<"a", "b", "c", "d", "e", "f", "g", "h", "i", "j", "k", "l", "m",
                "n", "o", "p", "q", "r", "s", "t", "u", "v", "w", "x", "y", "z">>

\* str.isspace / regex \s, for the characters of the model's alphabet
IsSpace(c) == c \in {" ", "\t", "\r"}

\* str.isdigit
IsDigit(c) == \E i \in 1..Len(DigitChars) : DigitChars[i] = c

DigitVal(c) == (CHOOSE i \in 1..Len(DigitChars) : DigitChars[i] = c) - 1

\* str.lower, one character
LowerChar(c) ==
    IF \E i \in 1..Len(UpperChars) : UpperChars[i] = c
    THEN LowerChars[CHOOSE i \in 1..Len(UpperChars) : UpperChars[i] = c]
    ELSE c

\* str.lower
Lower(s) == [i \in 1..Len(s) |-> LowerChar(s[i])]

\* str.lstrip, str.rstrip, str.strip
RECURSIVE LStrip(_)
LStrip(s) == IF s # <<>> /\ IsSpace(s[1]) THEN LStrip(Tail(s)) ELSE s

RECURSIVE RStrip(_)
RStrip(s) == IF s # <<>> /\ IsSpace(s[Len(s)]) THEN RStrip(SubSeq(s, 1, Len(s) - 1)) ELSE s

Strip(s) == RStrip(LStrip(s))

\* str.split(sep) for a one-character separator
RECURSIVE Split(_, _)
Split(s, sep) ==
    LET at == {i \in 1..Len(s) : s[i] = sep}
    IN  IF at = {} THEN <<s>>
        ELSE <<SubSeq(s, 1, SetMin(at) - 1)>> \o Split(SubSeq(s, SetMin(at) + 1, Len(s)), sep)

\* the first position from i on that holds no whitespace (Len(s) + 1 if none)
RECURSIVE SkipSpaces(_, _)
SkipSpaces(s, i) == IF i <= Len(s) /\ IsSpace(s[i]) THEN SkipSpaces(s, i + 1) ELSE i

\* the first position from i on that holds whitespace (Len(s) + 1 if none)
RECURSIVE SkipWord(_, _)
SkipWord(s, i) == IF i <= Len(s) /\ ~IsSpace(s[i]) THEN SkipWord(s, i + 1) ELSE i

\* str.split() without argument: the maximal runs of non-space characters from position i on
RECURSIVE WordsFrom(_, _)
WordsFrom(s, i) ==
    IF SkipSpaces(s, i) > Len(s) THEN <<>>
    ELSE <<SubSeq(s, SkipSpaces(s, i), SkipWord(s, SkipSpaces(s, i)) - 1)>>
         \o WordsFrom(s, SkipWord(s, SkipSpaces(s, i)))

SplitWords(s) == WordsFrom(s, 1)

\* sep.join(parts)
RECURSIVE Join(_, _)
Join(parts, sep) ==
    IF parts = <<>> THEN <<>>
    ELSE IF Len(parts) = 1 THEN parts[1]
    ELSE parts[1] \o sep \o Join(Tail(parts), sep)

\* sub in s
Contains(s, sub) ==
    \E i \in 0..(Len(s) - Len(sub)) : \A j \in 1..Len(sub) : s[i + j] = sub[j]

(***************************************************************************)
(* float(text) of a stripped field.  The value is kept in ten-thousandths; *)
(* the texts of the model are unsigned decimals with at most four fraction *)
(* digits, on which this is what float() computes, and texts that are not  *)
(* numbers, on which float() raises ValueError (None here).                *)
(***************************************************************************)
RECURSIVE DigitsVal(_)
DigitsVal(s) ==
    IF s = <<>> THEN 0 ELSE 10 * DigitsVal(SubSeq(s, 1, Len(s) - 1)) + DigitVal(s[Len(s)])

RECURSIVE Pow10(_)
Pow10(n) == IF n = 0 THEN 1 ELSE 10 * Pow10(n - 1)

ParseFloat(s) ==
    LET dots == {i \in 1..Len(s) : s[i] = "."}
        wellFormed ==
            /\ \A i \in 1..Len(s) : IsDigit(s[i]) \/ s[i] = "."
            /\ Cardinality(dots) <= 1
            /\ \E i \in 1..Len(s) : IsDigit(s[i])
        p == IF dots = {} THEN Len(s) + 1 ELSE SetMin(dots)
        whole == SubSeq(s, 1, p - 1)
        frac == SubSeq(s, p + 1, Len(s))
    IN  IF wellFormed /\ Len(frac) <= 4
        THEN Some(DigitsVal(whole) * 10000 + DigitsVal(frac) * Pow10(4 - Len(frac)))
        ELSE None

(***************************************************************************)
(* clean_fund_name: six re.sub calls, then ' '.join(name.split()), then    *)
(* strip.  re.sub(r'\s*-\s*TOKEN.*$', '', name, flags=re.IGNORECASE) cuts  *)
(* the name at the leftmost position where the pattern matches: '.*$' runs *)
(* to the end of a name that holds no newline.                             *)
(***************************************************************************)
\* the start of the whitespace run that ends just before position h
RECURSIVE RunStart(_, _)
RunStart(name, h) ==
    IF h > 1 /\ IsSpace(name[h - 1]) THEN RunStart(name, h - 1) ELSE h

\* '-\s*TOKEN' matches at the hyphen at position h, letter case ignored
TokenAfterHyphen(name, h, token) ==
    /\ name[h] = "-"
    /\ \E t \in {SkipSpaces(name, h + 1)} :
          /\ t + Len(token) - 1 <= Len(name)
          /\ \A i \in 1..Len(token) : LowerChar(name[t + i - 1]) = token[i]

\* re.sub(r'\s*-\s*TOKEN.*$', '', name, flags=re.IGNORECASE): the leftmost match
\* starts at the whitespace run before the first hyphen that TOKEN follows, and
\* runs to the end of the name
ReSub(name, token) ==
    LET at == {h \in 1..Len(name) : TokenAfterHyphen(name, h, token)}
    IN  IF at = {} THEN name ELSE SubSeq(name, 1, RunStart(name, SetMin(at)) - 1)

\* clean_fund_name without the two calls that remove Growth
clean_fund_name_WithoutGrowth(name) ==
    Strip(Join(SplitWords(ReSub(ReSub(name, <<"d", "i", "r", "e", "c", "t">>),
                                <<"r", "e", "g", "u", "l", "a", "r">>)), <<" ">>))

clean_fund_name(name) ==
    LET n1 == ReSub(name, <<"d", "i", "r", "e", "c", "t">>)
        n2 == ReSub(n1, <<"d", "i", "r", "e", "c", "t">>)
        n3 == ReSub(n2, <<"r", "e", "g", "u", "l", "a", "r">>)
        n4 == ReSub(n3, <<"r", "e", "g", "u", "l", "a", "r">>)
        n5 == ReSub(n4, <<"g", "r", "o", "w", "t", "h">>)
        n6 == ReSub(n5, <<"g", "r", "o", "w", "t", "h">>)
    IN  Strip(Join(SplitWords(n6), <<" ">>))

(***************************************************************************)
(* determine_category.  The two scripts carry their own copy of the method;*)
(* they differ in the sector list of the last elif.                        *)
(***************************************************************************)
CategoryOfLower_CLEAN(name_lower) ==
    LET has(sub) == Contains(name_lower, sub)
    IN  IF has(<<"e", "l", "s", "s">>) \/ has(<<"t", "a", "x", " ", "s", "a", "v", "e", "r">>)
        THEN "Equity - ELSS"
        ELSE IF has(<<"f", "l", "e", "x", "i", " ", "c", "a", "p">>)
        THEN "Equity - Flexi Cap"
        ELSE IF \/ has(<<"l", "a", "r", "g", "e", " ", "c", "a", "p">>)
                \/ has(<<"b", "l", "u", "e", "c", "h", "i", "p">>)
                \/ has(<<"b", "l", "u", "e", " ", "c", "h", "i", "p">>)
        THEN "Equity - Large Cap"
        ELSE IF has(<<"m", "i", "d", " ", "c", "a", "p">>) \/ has(<<"m", "i", "d", "c", "a", "p">>)
        THEN "Equity - Mid Cap"
        ELSE IF \/ has(<<"s", "m", "a", "l", "l", " ", "c", "a", "p">>)
                \/ has(<<"s", "m", "a", "l", "l", "c", "a", "p">>)
        THEN "Equity - Small Cap"
        ELSE IF has(<<"i", "n", "d", "e", "x">>)
        THEN "Equity - Index"
        ELSE IF \/ has(<<"f", "o", "f">>)
                \/ has(<<"f", "u", "n", "d", " ", "o", "f", " ", "f", "u", "n", "d", "s">>)
        THEN "Fund of Funds"
        ELSE IF has(<<"l", "i", "q", "u", "i", "d">>)
        THEN "Debt - Liquid"
        ELSE IF \/ has(<<"b", "a", "l", "a", "n", "c", "e", "d">>)
                \/ has(<<"h", "y", "b", "r", "i", "d">>)
                \/ has(<<"a", "d", "v", "a", "n", "t", "a", "g", "e">>)
        THEN "Hybrid"
        ELSE IF has(<<"d", "e", "b", "t">>) \/ has(<<"b", "o", "n", "d">>)
        THEN "Debt"
        ELSE IF has(<<"m", "o", "n", "e", "y", " ", "m", "a", "r", "k", "e", "t">>)
        THEN "Debt - Money Market"
        ELSE IF \E sector \in
                   { <<"i", "n", "f", "r", "a", "s", "t", "r", "u", "c", "t", "u", "r", "e">>,
                     <<"b", "a", "n", "k", "i", "n", "g">>,
                     <<"t", "e", "c", "h", "n", "o", "l", "o", "g", "y">>,
                     <<"h", "e", "a", "l", "t", "h", "c", "a", "r", "e">>,
                     <<"d", "e", "f", "e", "n", "c", "e">>,
                     <<"p", "s", "u">>,
                     <<"m", "a", "n", "u", "f", "a", "c", "t", "u", "r", "i", "n", "g">>,
                     <<"p", "h", "a", "r", "m", "a">>,
                     <<"a", "u", "t", "o">>,
                     <<"e", "n", "e", "r", "g", "y">> } : has(sector)
        THEN "Equity - Sectoral"
        ELSE "Other"

CategoryOfLower_FIXED(name_lower) ==
    LET has(sub) == Contains(name_lower, sub)
    IN  IF has(<<"e", "l", "s", "s">>) \/ has(<<"t", "a", "x", " ", "s", "a", "v", "e", "r">>)
        THEN "Equity - ELSS"
        ELSE IF has(<<"f", "l", "e", "x", "i", " ", "c", "a", "p">>)
        THEN "Equity - Flexi Cap"
        ELSE IF \/ has(<<"l", "a", "r", "g", "e", " ", "c", "a", "p">>)
                \/ has(<<"b", "l", "u", "e", "c", "h", "i", "p">>)
                \/ has(<<"b", "l", "u", "e", " ", "c", "h", "i", "p">>)
        THEN "Equity - Large Cap"
        ELSE IF has(<<"m", "i", "d", " ", "c", "a", "p">>) \/ has(<<"m", "i", "d", "c", "a", "p">>)
        THEN "Equity - Mid Cap"
        ELSE IF \/ has(<<"s", "m", "a", "l", "l", " ", "c", "a", "p">>)
                \/ has(<<"s", "m", "a", "l", "l", "c", "a", "p">>)
        THEN "Equity - Small Cap"
        ELSE IF has(<<"i", "n", "d", "e", "x">>)
        THEN "Equity - Index"
        ELSE IF \/ has(<<"f", "o", "f">>)
                \/ has(<<"f", "u", "n", "d", " ", "o", "f", " ", "f", "u", "n", "d", "s">>)
        THEN "Fund of Funds"
        ELSE IF has(<<"l", "i", "q", "u", "i", "d">>)
        THEN "Debt - Liquid"
        ELSE IF \/ has(<<"b", "a", "l", "a", "n", "c", "e", "d">>)
                \/ has(<<"h", "y", "b", "r", "i", "d">>)
                \/ has(<<"a", "d", "v", "a", "n", "t", "a", "g", "e">>)
        THEN "Hybrid"
        ELSE IF has(<<"d", "e", "b", "t">>) \/ has(<<"b", "o", "n", "d">>)
        THEN "Debt"
        ELSE IF has(<<"m", "o", "n", "e", "y", " ", "m", "a", "r", "k", "e", "t">>)
        THEN "Debt - Money Market"
        ELSE IF \/ has(<<"i", "n", "f", "r", "a", "s", "t", "r", "u", "c", "t", "u", "r", "e">>)
                \/ has(<<"b", "a", "n", "k", "i", "n", "g">>)
                \/ has(<<"t", "e", "c", "h", "n", "o", "l", "o", "g", "y">>)
                \/ has(<<"h", "e", "a", "l", "t", "h", "c", "a", "r", "e">>)
                \/ has(<<"d", "e", "f", "e", "n", "c", "e">>)
                \/ has(<<"p", "s", "u">>)
                \/ has(<<"m", "a", "n", "u", "f", "a", "c", "t", "u", "r", "i", "n", "g">>)
        THEN "Equity - Sectoral"
        ELSE "Other"

\* name_lower = fund_name.lower(), then the if / elif chain
determine_category_CLEAN(fund_name) == CategoryOfLower_CLEAN(Lower(fund_name))

determine_category_FIXED(fund_name) == CategoryOfLower_FIXED(Lower(fund_name))

\* the script that runs: fetch-fund-data-CLEAN.py or update-fund-data-ACTUALLY-FIXED.py
Scripts == {"CLEAN", "ACTUALLY-FIXED"}

determine_category(which, fund_name) ==
    IF which = "CLEAN" THEN determine_category_CLEAN(fund_name)
    ELSE determine_category_FIXED(fund_name)

(***************************************************************************)
(* The feed.  A feed line is written as the list of its ';'-separated      *)
(* fields; the downloaded text is the lines joined by newlines.  The lines *)
(* below cover section headers, blank lines, lines of 4, 5, 6, 7 and 8     *)
(* fields, names that normalise to the same key, and NAV texts that are    *)
(* numbers, empty or not a number.                                         *)
(***************************************************************************)
LineHeader ==
    << <<"E", "x", "a", "m", "p", "l", "e", " ", "A", "M", "C">> >>
LineHeaderText ==
    << <<" ", "Z", "e", "d", " ", "M", "F">>,
       <<"b">>,
       <<"c">>,
       <<"d", "\r">> >>
LineBlank ==
    << <<"\r">> >>
LineShort ==
    << <<"9">>,
       <<"x">>,
       <<"y">>,
       <<"z">> >>
LineFive ==
    << <<"7">>,
       <<"I", "N", "F", "7">>,
       <<"A", "x", "i", "s", " ", "F", "u", "n", "d">>,
       <<"1", "0", ".", "5">>,
       <<"0", "1", "-", "N", "o", "v", "-", "2", "0", "2", "6">> >>
LineAxisDirect ==
    << <<"1", "0", "1">>,
       <<"I", "N", "F", "1">>,
       <<"-">>,
       <<"A", "x", "i", "s", " ", "F", "u", "n", "d", " ", "-", " ", "D", "i", "r", "e", "c", "t">>,
       <<"1", "2", ".", "5", "0">>,
       <<"0", "2", "-", "N", "o", "v", "-", "2", "0", "2", "6">> >>
LineAxisDirectAlt ==
    << <<"1", "0", "1">>,
       <<"Z", "Z">>,
       <<"Q">>,
       <<"A", "x", "i", "s", " ", "F", "u", "n", "d", " ", "-", " ", "D", "i", "r", "e", "c", "t">>,
       <<"1", "2", ".", "5", "0">>,
       <<"0", "2", "-", "N", "o", "v", "-", "2", "0", "2", "6">>,
       <<"x">>,
       <<"y">> >>
LineAxisRegular ==
    << <<" ", "1", "0", "2">>,
       <<"I", "N", "F", "2">>,
       <<"-">>,
       <<" ", "A", "x", "i", "s", " ", " ", "F", "u", "n", "d", " ", "-", " ", "R", "e", "g", "u", "l", "a", "r", " ", "I", "n", "d", "e", "x", " ">>,
       <<"1", "3", ".", "5">>,
       <<"0", "3", "-", "N", "o", "v", "-", "2", "0", "2", "6", "\r">> >>
LineBeta ==
    << <<"1", "0", "3">>,
       <<"-">>,
       <<"-">>,
       <<"B", "e", "t", "a", " ", "I", "n", "d", "e", "x">>,
       <<"N", ".", "A", ".">>,
       <<"0", "2", "-", "N", "o", "v", "-", "2", "0", "2", "6">>,
       <<"e", "x", "t", "r", "a">> >>
LineNoName ==
    << <<"1", "0", "4">>,
       <<"I", "N", "F", "4">>,
       <<"-">>,
       <<" ">>,
       <<"1", ".", "0">>,
       <<"0", "2", "-", "N", "o", "v", "-", "2", "0", "2", "6">> >>
LineGamma ==
    << <<"1", "0", "5">>,
       <<"I", "N", "F", "5">>,
       <<"-">>,
       <<"G", "a", "m", "m", "a", " ", "L", "a", "r", "g", "e", " ", "C", "a", "p", " ", "I", "n", "d", "e", "x", " ", "-", " ", "G", "r", "o", "w", "t", "h">>,
       <<>>,
       <<"0", "4", "-", "N", "o", "v", "-", "2", "0", "2", "6">> >>
LineNoCode ==
    << <<>>,
       <<"I", "N", "F", "6">>,
       <<"-">>,
       <<"D", "e", "l", "t", "a", " ", "F", "u", "n", "d">>,
       <<"2", ".", "0">>,
       <<"0", "5", "-", "N", "o", "v", "-", "2", "0", "2", "6">> >>

FeedLines ==
    { LineHeader, LineHeaderText, LineBlank, LineShort, LineFive,
      LineAxisDirect, LineAxisDirectAlt, LineAxisRegular, LineBeta, LineNoName,
      LineGamma, LineNoCode }

\* longest feed, in lines
MaxLines == 3

RECURSIVE SeqsUpTo(_, _)
SeqsUpTo(S, n) ==
    IF n = 0 THEN {<<>>}
    ELSE LET shorter == SeqsUpTo(S, n - 1)
         IN  shorter \cup {Append(s, x) : s \in {t \in shorter : Len(t) = n - 1}, x \in S}

Feeds == SeqsUpTo(FeedLines, MaxLines)

\* response.text of the feed download
ResponseText(f) == Join([i \in 1..Len(f) |-> Join(f[i], <<";">>)], <<"\n">>)

(***************************************************************************)
(* State.                                                                  *)
(***************************************************************************)
VARIABLES
    pc,            \* where the running script stands
    script,        \* which parser script runs, or whose method is called
    feed,          \* the feed the AMFI server holds, as lists of fields
    lines,         \* response.text.split('\n')
    line_no,       \* position of the for loop over lines (next line, from 1)
    current_amc,   \* current_amc
    funds_data,    \* self.funds_data: the entries in insertion order
    fund_count,    \* fund_count
    fetch_errors,  \* self.errors of the fetcher
    clean_arg,     \* clean_fund_name: the name passed
    cleaned,       \* clean_fund_name(clean_arg)
    cleaned_again, \* clean_fund_name(cleaned)
    category_arg,  \* determine_category: the name passed
    category,      \* determine_category(category_arg)
    returns_arg,   \* calculate_returns: the NAV history passed
    returns_out,   \* calculate_returns(returns_arg)
    run,           \* which invocation of the enrichment script this is, from 1
    input_file,    \* saarthi/data/funds-data.json: the funds of the catalog, in order
    output_file,   \* saarthi/data/funds-data-enriched.json
    errors_file,   \* saarthi/data/enrichment-errors.json
    data,          \* data of enrich_funds, as loaded and then changed in memory
    total_funds,   \* total_funds
    start_from,    \* start_index of the main block, start_from of enrich_funds
    index,         \* i of the for loop of enrich_funds
    successful,    \* self.successful
    failed,        \* self.failed
    errors,        \* self.errors of the enricher
    exit_code,     \* the exit code of the process, None while it runs
    outcome,       \* how the invocation ended, "running" until then
    exit_at,       \* history: where the batch stood when it was interrupted
    handled,       \* history: the indices this invocation handled, in order
    resumed_from,  \* history: the checkpoint the user accepted, None if none
    last_checkpoint, \* history: the last checkpoint whose write completed, None once
                   \* the final file is written
    fetch_gap,     \* history: the sleeps completed since the last fetch of this
                   \* invocation, -1 before its first fetch
    aum,           \* the 'aum' that add_estimated_aum sets in each entry of funds_data
    out_files,     \* funds-data.json, funds-index.json and metadata.json of output_dir
    parser_exit    \* the exit code of the parser script, None while it runs

runVars == <<aum, out_files, parser_exit>>

parserVars ==
    <<feed, lines, line_no, current_amc, funds_data, fund_count, fetch_errors, runVars>>

cleanVars == <<clean_arg, cleaned, cleaned_again>>

categoryVars == <<category_arg, category>>

returnsVars == <<returns_arg, returns_out>>

enrichFiles == <<input_file, output_file, errors_file>>

enrichMemory == <<data, total_funds, start_from, index, successful, failed, errors>>

enrichHistory == <<exit_at, handled, resumed_from, last_checkpoint, fetch_gap>>

enrichVars == <<run, enrichFiles, enrichMemory, exit_code, outcome, enrichHistory>>

vars == <<pc, script, parserVars, cleanVars, categoryVars, returnsVars, enrichVars>>

\* what the parser leaves alone
notParser == <<cleanVars, categoryVars, returnsVars, enrichVars>>

(***************************************************************************)
(* fetch_amfi_nav_data.                                                    *)
(***************************************************************************)
\* HasRecordLayout with the field count of the 5-field layout
HasRecordLayout_FiveFields(parts) == Len(parts) >= 5

\* if len(parts) >= 6
HasRecordLayout(parts) == Len(parts) >= 6

\* ExtractFields reading the 5-field layout: name, NAV and date at 2, 3, 4
ExtractFields_FiveFieldLayout(parts) ==
    IF Len(parts) < 5
    THEN [raised |-> TRUE, scheme_code |-> <<>>, scheme_name |-> <<>>,
          nav_str |-> <<>>, nav_date |-> <<>>]
    ELSE [raised      |-> FALSE,
          scheme_code |-> Strip(parts[1]),
          scheme_name |-> Strip(parts[3]),
          nav_str     |-> Strip(parts[4]),
          nav_date    |-> Strip(parts[5])]

\* parts[0], parts[3], parts[4], parts[5], each stripped; indexing past the end of
\* parts raises IndexError
ExtractFields(parts) ==
    IF Len(parts) < 6
    THEN [raised |-> TRUE, scheme_code |-> <<>>, scheme_name |-> <<>>,
          nav_str |-> <<>>, nav_date |-> <<>>]
    ELSE [raised      |-> FALSE,
          scheme_code |-> Strip(parts[1]),
          scheme_name |-> Strip(parts[4]),
          nav_str     |-> Strip(parts[5]),
          nav_date    |-> Strip(parts[6])]

\* IsAmcLine taking only lines without a ';' for headers
IsAmcLine_NoSemicolon(line) ==
    line # <<>> /\ ~IsDigit(line[1]) /\ ~(\E i \in 1..Len(line) : line[i] = ";")

\* the header test of the loop: a non-empty stripped line that does not start with a digit
IsAmcLine(line) == line # <<>> /\ ~IsDigit(line[1])

\* nav = float(nav_str) if nav_str else None, None on ValueError
ParseNav(nav_str) == IF nav_str # <<>> THEN ParseFloat(nav_str) ELSE None

\* clean_name in self.funds_data
HasKey(funds, key) == \E i \in 1..Len(funds) : funds[i].key = key

LookupKey(funds, key) == funds[CHOOSE i \in 1..Len(funds) : funds[i].key = key]

\* self.funds_data[clean_name] = {...} for a key that is not in the dict
AddFund(funds, key, fund) == Append(funds, [key |-> key, fund |-> fund])

\* the name the category is computed from: scheme_name in CLEAN, clean_name in ACTUALLY-FIXED
CategorySource(which, scheme_name, clean_name) ==
    IF which = "CLEAN" THEN scheme_name ELSE clean_name

\* the fund record of a line
MakeFund(which, f, clean_name, amc) ==
    [name        |-> f.scheme_name,
     amc         |-> amc,
     scheme_code |-> f.scheme_code,
     nav         |-> ParseNav(f.nav_str),
     nav_date    |-> f.nav_date,
     category    |-> determine_category(which, CategorySource(which, f.scheme_name, clean_name))]

\* InsertRecord assigning self.funds_data[clean_name] whether or not the key is there
InsertRecord_Overwrite(which, f, clean_name, same) ==
    IF HasKey(same.funds, clean_name)
    THEN [same EXCEPT !.funds =
             [n \in 1..Len(same.funds) |->
                 IF same.funds[n].key = clean_name
                 THEN [key |-> clean_name, fund |-> MakeFund(which, f, clean_name, same.amc)]
                 ELSE same.funds[n]]]
    ELSE [same EXCEPT !.funds = AddFund(same.funds, clean_name,
                                        MakeFund(which, f, clean_name, same.amc)),
                      !.count = same.count + 1]

\* from "clean_name = self.clean_fund_name(scheme_name)" to "fund_count += 1"
InsertRecord(which, f, clean_name, same) ==
    IF HasKey(same.funds, clean_name)
    THEN same
    ELSE [same EXCEPT !.funds = AddFund(same.funds, clean_name,
                                        MakeFund(which, f, clean_name, same.amc)),
                      !.count = same.count + 1]

\* ProcessRecord without the try/except around float(nav_str): a NAV that float()
\* rejects raises out of the loop
ProcessRecord_NavErrorRaises(which, f, same) ==
    IF f.raised \/ (f.nav_str # <<>> /\ ParseFloat(f.nav_str) = None)
    THEN [same EXCEPT !.raised = TRUE]
    ELSE IF f.scheme_name = <<>> \/ f.scheme_code = <<>>
    THEN same
    ELSE InsertRecord(which, f, clean_fund_name(f.scheme_name), same)

\* the body of "if len(parts) >= 6"
ProcessRecord(which, f, same) ==
    IF f.raised
    THEN [same EXCEPT !.raised = TRUE]
    ELSE IF f.scheme_name = <<>> \/ f.scheme_code = <<>>
    THEN same
    ELSE InsertRecord(which, f, clean_fund_name(f.scheme_name), same)

\* the body of "if ';' in line"
ProcessParts(which, parts, same) ==
    IF HasRecordLayout(parts) THEN ProcessRecord(which, ExtractFields(parts), same) ELSE same

\* one iteration of "for line in lines": the new current_amc, funds_data and fund_count,
\* and whether the iteration raised
ProcessStripped(which, line, same) ==
    IF IsAmcLine(line)
    THEN [same EXCEPT !.amc = Some(line)]
    ELSE IF \E i \in 1..Len(line) : line[i] = ";"
    THEN ProcessParts(which, Split(line, ";"), same)
    ELSE same

ProcessLine(which, raw, amc, funds, count) ==
    ProcessStripped(which, Strip(raw),
                    [amc |-> amc, funds |-> funds, count |-> count, raised |-> FALSE])

\* requests.get succeeded: the text is split into lines
FetchFeed ==
    /\ pc = "fetch"
    /\ lines' = Split(ResponseText(feed), "\n")
    /\ line_no' = 1
    /\ current_amc' = None
    /\ fund_count' = 0
    /\ pc' = "lines"
    /\ UNCHANGED <<script, feed, funds_data, fetch_errors, runVars, notParser>>

\* requests.get or raise_for_status raised: the error is recorded, False is returned
FetchFeedFails ==
    /\ pc = "fetch"
    /\ fetch_errors' = Append(fetch_errors, "AMFI")
    /\ pc' = "failed"
    /\ UNCHANGED <<script, feed, lines, line_no, current_amc, funds_data, fund_count,
                   runVars, notParser>>

\* one iteration of the for loop; an exception ends the method in its except clause
ParseLine ==
    /\ pc = "lines"
    /\ line_no <= Len(lines)
    /\ \E r \in {ProcessLine(script, lines[line_no], current_amc, funds_data, fund_count)} :
           /\ current_amc' = r.amc
           /\ funds_data' = r.funds
           /\ fund_count' = r.count
           /\ pc' = IF r.raised THEN "failed" ELSE pc
           /\ fetch_errors' = IF r.raised THEN Append(fetch_errors, "AMFI") ELSE fetch_errors
    /\ line_no' = line_no + 1
    /\ UNCHANGED <<script, feed, lines, runVars, notParser>>

\* the loop is over: return True
ParseReturn ==
    /\ pc = "lines"
    /\ line_no > Len(lines)
    /\ pc' = "parsed"
    /\ UNCHANGED <<script, feed, lines, line_no, current_amc, funds_data, fund_count,
                   fetch_errors, runVars, notParser>>

\* the characters of the model's alphabet in the order of their code points
CodePointOrder ==
    <<"\t", "\r", " ", "-", ".">> \o DigitChars \o <<";">> \o UpperChars \o LowerChars

\* where a character stands in that order
CodePointRank(c) == CHOOSE r \in 1..Len(CodePointOrder) : CodePointOrder[r] = c

RECURSIVE StrLess(_, _)
\* a < b for two str, as sorted compares them
StrLess(a, b) ==
    IF b = <<>> THEN FALSE
    ELSE IF a = <<>> THEN TRUE
    ELSE IF a[1] = b[1] THEN StrLess(Tail(a), Tail(b))
    ELSE CodePointRank(a[1]) < CodePointRank(b[1])

\* sorted(list(self.funds_data.keys())): the keys are distinct
SortedKeys(keys) ==
    [r \in 1..Len(keys) |->
        keys[CHOOSE j \in 1..Len(keys) :
                Cardinality({k \in 1..Len(keys) : StrLess(keys[k], keys[j])}) = r - 1]]

\* aum_map.get(category, ...), the rupee sign left out
AumOf(cat) ==
    CASE cat = "Equity - Large Cap" -> "15,000 Cr"
      [] cat = "Equity - Mid Cap" -> "8,000 Cr"
      [] cat = "Equity - Small Cap" -> "5,000 Cr"
      [] cat = "Equity - Flexi Cap" -> "12,000 Cr"
      [] cat = "Equity - ELSS" -> "6,000 Cr"
      [] cat = "Equity - Index" -> "10,000 Cr"
      [] cat = "Equity - Sectoral" -> "4,000 Cr"
      [] cat = "Hybrid" -> "8,000 Cr"
      [] cat = "Debt - Liquid" -> "20,000 Cr"
      [] cat = "Debt - Money Market" -> "15,000 Cr"
      [] cat = "Debt" -> "5,000 Cr"
      [] cat = "Fund of Funds" -> "3,000 Cr"
      [] OTHER -> "2,000 Cr"

\* output_dir with none of the three files in it
NoFiles == [funds_data |-> None, funds_index |-> None, metadata |-> None]

\* main_data, index_data and metadata of generate_json_files
MainData(funds, aums) ==
    [total_funds |-> Len(funds),
     funds |-> [j \in 1..Len(funds) |-> [key |-> funds[j].key, fund |-> funds[j].fund,
                                         aum |-> aums[j]]]]

IndexData(funds) ==
    [total_funds |-> Len(funds),
     funds |-> SortedKeys([j \in 1..Len(funds) |-> funds[j].key])]

Metadata(funds, errs) == [total_funds |-> Len(funds), errors |-> errs]

\* the files after the first `written` of the three json.dump of generate_json_files
FilesAfter(files, written, funds, aums, errs) ==
    [funds_data |-> IF written >= 1 THEN Some(MainData(funds, aums)) ELSE files.funds_data,
     funds_index |-> IF written >= 2 THEN Some(IndexData(funds)) ELSE files.funds_index,
     metadata |-> IF written >= 3 THEN Some(Metadata(funds, errs)) ELSE files.metadata]

\* run: fetch_amfi_nav_data returned False; return False, and sys.exit(1)
AbortAfterFetch_WritingMetadata ==
    /\ pc = "failed"
    /\ out_files' = [out_files EXCEPT !.metadata = Some(Metadata(funds_data, fetch_errors))]
    /\ parser_exit' = Some(1)
    /\ pc' = "exited"
    /\ UNCHANGED <<script, feed, lines, line_no, current_amc, funds_data, fund_count,
                   fetch_errors, aum, notParser>>

AbortAfterFetch ==
    /\ pc = "failed"
    /\ parser_exit' = Some(1)
    /\ pc' = "exited"
    /\ UNCHANGED <<script, feed, lines, line_no, current_amc, funds_data, fund_count,
                   fetch_errors, aum, out_files, notParser>>

\* add_estimated_aum (add_dummy_aum in ACTUALLY-FIXED)
AddEstimatedAum ==
    /\ pc = "parsed"
    /\ aum' = [j \in 1..Len(funds_data) |-> AumOf(funds_data[j].fund.category)]
    /\ pc' = "generate"
    /\ UNCHANGED <<script, feed, lines, line_no, current_amc, funds_data, fund_count,
                   fetch_errors, out_files, parser_exit, notParser>>

\* generate_json_files: the three files are written in turn; makedirs, an open or a
\* dump may raise, the files written before it stay and False is returned
GenerateJsonFiles ==
    /\ pc = "generate"
    /\ \E written \in 0..3 :
          /\ out_files' = FilesAfter(out_files, written, funds_data, aum, fetch_errors)
          /\ pc' = IF written = 3 THEN "generated" ELSE "not_generated"
    /\ UNCHANGED <<script, feed, lines, line_no, current_amc, funds_data, fund_count,
                   fetch_errors, aum, parser_exit, notParser>>

\* run: generate_json_files returned False; return False, and sys.exit(1)
AbortAfterGenerate ==
    /\ pc = "not_generated"
    /\ parser_exit' = Some(1)
    /\ pc' = "exited"
    /\ UNCHANGED <<script, feed, lines, line_no, current_amc, funds_data, fund_count,
                   fetch_errors, aum, out_files, notParser>>

\* run returns True; sys.exit(0)
CompleteRun ==
    /\ pc = "generated"
    /\ parser_exit' = Some(0)
    /\ pc' = "exited"
    /\ UNCHANGED <<script, feed, lines, line_no, current_amc, funds_data, fund_count,
                   fetch_errors, aum, out_files, notParser>>

\* the state of a component that does not run
ParserIdle ==
    /\ feed = <<>>
    /\ lines = <<>>
    /\ line_no = 0
    /\ current_amc = None
    /\ funds_data = <<>>
    /\ fund_count = 0
    /\ fetch_errors = <<>>
    /\ aum = <<>>
    /\ out_files = NoFiles
    /\ parser_exit = None

CleanIdle == clean_arg = <<>> /\ cleaned = <<>> /\ cleaned_again = <<>>

CategoryIdle == category_arg = <<>> /\ category = ""

ReturnsIdle == returns_arg = <<>> /\ returns_out = None

\* data before json.load: no funds and none of the keys the enricher adds
NoData == [funds |-> <<>>, progress |-> None, complete |-> FALSE, stats |-> None]

\* a file that does not exist
NoFile == [exists |-> FALSE, content |-> None]

\* MFApiEnricher.__init__ and the locals of the main block before they are bound
FreshMemory ==
    /\ data = NoData
    /\ total_funds = 0
    /\ start_from = 0
    /\ index = 0
    /\ successful = 0
    /\ failed = 0
    /\ errors = <<>>
    /\ exit_code = None
    /\ outcome = "running"
    /\ exit_at = ""
    /\ handled = <<>>
    /\ resumed_from = None

EnrichIdle ==
    /\ run = 0
    /\ last_checkpoint = None
    /\ fetch_gap = -1
    /\ input_file = <<>>
    /\ output_file = NoFile
    /\ errors_file = None
    /\ FreshMemory

\* FundDataFetcher() / FundDataUpdater(), then run() calls fetch_amfi_nav_data
Init ==
    /\ script \in Scripts
    /\ feed \in Feeds
    /\ lines = <<>>
    /\ line_no = 0
    /\ current_amc = None
    /\ funds_data = <<>>
    /\ fund_count = 0
    /\ fetch_errors = <<>>
    /\ aum = <<>>
    /\ out_files = NoFiles
    /\ parser_exit = None
    /\ pc = "fetch"
    /\ CleanIdle /\ CategoryIdle /\ ReturnsIdle /\ EnrichIdle

Next ==
    \/ FetchFeed
    \/ FetchFeedFails
    \/ ParseLine
    \/ ParseReturn
    \/ AbortAfterFetch
    \/ AddEstimatedAum
    \/ GenerateJsonFiles
    \/ AbortAfterGenerate
    \/ CompleteRun

\* a run of a parser script
Spec == Init /\ [][Next]_vars

(***************************************************************************)
(* The feed as the properties speak of it: the fields of a line as the server  *)
(* wrote them, before the text was joined, downloaded and split again.     *)
(***************************************************************************)
RawLine(f) == Join(f, <<";">>)

\* what a line is, worked out once for each line the feed can hold:
\*   trimmed  the line without its surrounding whitespace
\*   header   a section header: a non-empty line that does not start with a digit
\*   record   a record line: starts with a digit, 6 or more fields, a non-empty name
\*   key      the normalised name of a record line
LineFacts(f) ==
    LET trimmed == Strip(RawLine(f))
        record == /\ trimmed # <<>>
                  /\ IsDigit(trimmed[1])
                  /\ Len(f) >= 6
                  /\ Strip(f[4]) # <<>>
    IN  [trimmed |-> trimmed,
         header  |-> trimmed # <<>> /\ ~IsDigit(trimmed[1]),
         record  |-> record,
         key     |-> IF record THEN clean_fund_name(Strip(f[4])) ELSE <<>>]

FactsTable == {<<f, LineFacts(f)>> : f \in FeedLines}

FactsOf(f) == (CHOOSE p \in FactsTable : p[1] = f)[2]

Trimmed(f) == FactsOf(f).trimmed

IsHeaderLine(f) == FactsOf(f).header

IsRecordLine(f) == FactsOf(f).record

KeyOf(f) == FactsOf(f).key

\* the feed lines the loop has been through
Processed ==
    IF pc \in {"fetch", "failed"}
    THEN {}
    ELSE 1..(IF line_no - 1 <= Len(feed) THEN line_no - 1 ELSE Len(feed))

\* the record lines gone through that normalise to key k
LinesOfKey(k) == {i \in Processed : IsRecordLine(feed[i]) /\ KeyOf(feed[i]) = k}

\* the entry e holds code, name, NAV and date of the fields 0, 3, 4, 5 of line f
BuiltFrom(e, f) ==
    /\ e.key = KeyOf(f)
    /\ e.fund.scheme_code = Strip(f[1])
    /\ e.fund.name = Strip(f[4])
    /\ e.fund.nav = (IF Strip(f[5]) = <<>> THEN None ELSE ParseFloat(Strip(f[5])))
    /\ e.fund.nav_date = Strip(f[6])

\* C1: a line that starts with a digit, has 6 or more fields and a name, and whose key
\* is new, adds the record made of its fields 0, 3, 4, 5 (code, name, NAV, date);
\* fields 1, 2 and those past 5 play no part.
C1_Step ==
    (/\ pc = "lines"
     /\ line_no <= Len(feed)
     /\ IsRecordLine(feed[line_no])
     /\ ~HasKey(funds_data, KeyOf(feed[line_no])))
    => /\ Len(funds_data') = Len(funds_data) + 1
       /\ BuiltFrom(funds_data'[Len(funds_data')], feed[line_no])

C1_PositionalMapping == [][C1_Step]_vars

\* a record line of more than 6 fields has been parsed into the catalog
C1_Witness ==
    \E i \in Processed :
        /\ IsRecordLine(feed[i])
        /\ Len(feed[i]) > 6
        /\ \E n \in 1..Len(funds_data) :
              /\ BuiltFrom(funds_data[n], feed[i])
              /\ funds_data[n].fund.nav # None

\* C2: a line of fewer than 6 fields adds no record and does not end the parsing:
\* every record line gone through, before or after it, has its key in the catalog,
\* and the method fails only when the download itself failed.
C2_Step ==
    (/\ pc = "lines"
     /\ line_no <= Len(feed)
     /\ Len(feed[line_no]) < 6)
    => /\ funds_data' = funds_data
       /\ pc' = "lines"

C2_Inv ==
    /\ \A i \in Processed : IsRecordLine(feed[i]) => HasKey(funds_data, KeyOf(feed[i]))
    /\ pc = "failed" => lines = <<>>

C2_ShortLinesSkipped == []C2_Inv /\ [][C2_Step]_vars

\* the parser returned success on a feed with a short line followed by a record line
C2_Witness ==
    /\ pc = "parsed"
    /\ \E i \in Processed, j \in Processed :
          /\ i < j
          /\ Len(feed[i]) < 6
          /\ Trimmed(feed[i]) # <<>>
          /\ IsDigit(Trimmed(feed[i])[1])
          /\ IsRecordLine(feed[j])
          /\ LinesOfKey(KeyOf(feed[j])) = {j}
          /\ \E n \in 1..Len(funds_data) : BuiltFrom(funds_data[n], feed[j])

\* C3: for every key, the catalog holds one entry, the record of the first record line
\* of the feed that normalises to the key, and no entry ever changes or disappears.
C3_Inv ==
    /\ \A n \in 1..Len(funds_data) : LinesOfKey(funds_data[n].key) # {}
    /\ \A i \in Processed :
          IsRecordLine(feed[i]) =>
              /\ Cardinality({n \in 1..Len(funds_data) : funds_data[n].key = KeyOf(feed[i])}) = 1
              /\ BuiltFrom(LookupKey(funds_data, KeyOf(feed[i])),
                           feed[SetMin(LinesOfKey(KeyOf(feed[i])))])

C3_Step ==
    /\ Len(funds_data') >= Len(funds_data)
    /\ \A n \in 1..Len(funds_data) : funds_data'[n] = funds_data[n]

C3_FirstSeenWins == []C3_Inv /\ [][C3_Step]_vars

\* two record lines with the same key and different codes went through; the first one stands
C3_Witness ==
    \E i \in Processed, j \in Processed :
        /\ i < j
        /\ IsRecordLine(feed[i])
        /\ IsRecordLine(feed[j])
        /\ KeyOf(feed[i]) = KeyOf(feed[j])
        /\ Strip(feed[i][1]) # Strip(feed[j][1])
        /\ LookupKey(funds_data, KeyOf(feed[j])).fund.scheme_code = Strip(feed[i][1])

\* the header lines before line i
HeadersBefore(i) == {h \in 1..(i - 1) : IsHeaderLine(feed[h])}

\* C4: the amc of a record is the last header line before the record's line, and None
\* exactly when there is none; the feed <header "Example AMC", record line, 4-field line>
\* gives one record, with amc "Example AMC".
C4_Inv ==
    /\ \A n \in 1..Len(funds_data) :
          /\ LinesOfKey(funds_data[n].key) # {}
          /\ \E first \in {SetMin(LinesOfKey(funds_data[n].key))} :
                funds_data[n].fund.amc =
                    IF HeadersBefore(first) = {} THEN None
                    ELSE Some(Trimmed(feed[SetMax(HeadersBefore(first))]))
    /\ (pc = "parsed" /\ feed = <<LineHeader, LineAxisDirect, LineShort>>)
          => /\ Len(funds_data) = 1
             /\ funds_data[1].fund.amc = Some(LineHeader[1])

C4_AmcCarriedForward == C4_Inv

\* the feed of the end-to-end scenario has been parsed
C4_Witness ==
    /\ pc = "parsed"
    /\ feed = <<LineHeader, LineAxisDirect, LineShort>>
    /\ Len(funds_data) = 1
    /\ funds_data[1].fund.amc # None

(***************************************************************************)
(* clean_fund_name called on a name, then on its own result.  The names    *)
(* are made of pieces: a word, whitespace (one space, two spaces, a tab),  *)
(* a hyphen, the three qualifiers in mixed letter case, and a word that    *)
(* only starts like a qualifier.                                           *)
(***************************************************************************)
NamePieces ==
    { <<"A", "x">>,
      <<" ">>,
      <<" ", " ">>,
      <<"\t">>,
      <<"-">>,
      <<"D", "i", "r", "e", "c", "t">>,
      <<"R", "E", "G", "U", "L", "A", "R">>,
      <<"g", "r", "o", "w", "t", "h">>,
      <<"D", "i", "r">> }

\* longest name, in pieces
MaxPieces == 4

RECURSIVE Concat(_)
Concat(ps) == IF ps = <<>> THEN <<>> ELSE ps[1] \o Concat(Tail(ps))

Names == {Concat(ps) : ps \in SeqsUpTo(NamePieces, MaxPieces)}

CleanInit ==
    /\ pc = "clean"
    /\ clean_arg \in Names
    /\ cleaned = <<>>
    /\ cleaned_again = <<>>
    /\ script = "CLEAN"
    /\ ParserIdle /\ CategoryIdle /\ ReturnsIdle /\ EnrichIdle

\* clean_name = self.clean_fund_name(scheme_name)
CleanOnce ==
    /\ pc = "clean"
    /\ cleaned' = clean_fund_name(clean_arg)
    /\ pc' = "cleaned"
    /\ UNCHANGED <<script, clean_arg, cleaned_again, parserVars, categoryVars, returnsVars,
                   enrichVars>>

\* the method called on its own result
CleanTwice ==
    /\ pc = "cleaned"
    /\ cleaned_again' = clean_fund_name(cleaned)
    /\ pc' = "cleaned twice"
    /\ UNCHANGED <<script, clean_arg, cleaned, parserVars, categoryVars, returnsVars,
                   enrichVars>>

CleanNext == CleanOnce \/ CleanTwice

\* clean_fund_name on a name and on its result
SpecClean == CleanInit /\ [][CleanNext]_vars

\* s holds a hyphen, optional whitespace, and then one of Direct, Regular, Growth in any case
HasQualifier(s) ==
    \E h \in 1..Len(s), t \in 1..Len(s), token \in { <<"d", "i", "r", "e", "c", "t">>,
                                                      <<"r", "e", "g", "u", "l", "a", "r">>,
                                                      <<"g", "r", "o", "w", "t", "h">> } :
        /\ s[h] = "-"
        /\ h < t
        /\ \A i \in (h + 1)..(t - 1) : IsSpace(s[i])
        /\ t + Len(token) - 1 <= Len(s)
        /\ Lower(SubSeq(s, t, t + Len(token) - 1)) = token

\* whitespace in s is single spaces between other characters
SingleSpaced(s) ==
    /\ \A i \in 1..Len(s) : IsSpace(s[i]) => s[i] = " "
    /\ \A i \in 1..(Len(s) - 1) : ~(IsSpace(s[i]) /\ IsSpace(s[i + 1]))
    /\ s # <<>> => ~IsSpace(s[1]) /\ ~IsSpace(s[Len(s)])

\* C5: clean_fund_name of a cleaned name is that name; a cleaned name holds no hyphen
\* followed by optional whitespace and Direct / Regular / Growth, no whitespace but
\* single spaces, and none at its ends.
C5_Idempotent ==
    /\ pc \in {"cleaned", "cleaned twice"} => ~HasQualifier(cleaned) /\ SingleSpaced(cleaned)
    /\ pc = "cleaned twice" => cleaned_again = cleaned

\* a name with qualifiers and whitespace runs was cleaned to something shorter, twice
C5_Witness ==
    /\ pc = "cleaned twice"
    /\ HasQualifier(clean_arg)
    /\ ~SingleSpaced(clean_arg)
    /\ cleaned # <<>>
    /\ cleaned # clean_arg
    /\ cleaned_again = cleaned

(***************************************************************************)
(* determine_category called on a name.  The names are one or more words   *)
(* joined by single spaces; the words are the substrings the rules look    *)
(* for, in title or upper case, and a word no rule looks for.              *)
(***************************************************************************)
CategoryWords ==
    { <<"E", "L", "S", "S">>,
      <<"T", "a", "x", " ", "S", "a", "v", "e", "r">>,
      <<"F", "l", "e", "x", "i", " ", "C", "a", "p">>,
      <<"L", "a", "r", "g", "e", " ", "C", "a", "p">>,
      <<"B", "l", "u", "e", "c", "h", "i", "p">>,
      <<"B", "l", "u", "e", " ", "C", "h", "i", "p">>,
      <<"M", "i", "d", " ", "C", "a", "p">>,
      <<"M", "i", "d", "c", "a", "p">>,
      <<"S", "m", "a", "l", "l", " ", "C", "a", "p">>,
      <<"S", "M", "A", "L", "L", "C", "A", "P">>,
      <<"I", "n", "d", "e", "x">>,
      <<"F", "o", "F">>,
      <<"F", "u", "n", "d", " ", "o", "f", " ", "F", "u", "n", "d", "s">>,
      <<"L", "i", "q", "u", "i", "d">>,
      <<"B", "a", "l", "a", "n", "c", "e", "d">>,
      <<"H", "y", "b", "r", "i", "d">>,
      <<"A", "d", "v", "a", "n", "t", "a", "g", "e">>,
      <<"D", "e", "b", "t">>,
      <<"B", "o", "n", "d">>,
      <<"M", "o", "n", "e", "y", " ", "M", "a", "r", "k", "e", "t">>,
      <<"I", "n", "f", "r", "a", "s", "t", "r", "u", "c", "t", "u", "r", "e">>,
      <<"B", "a", "n", "k", "i", "n", "g">>,
      <<"T", "e", "c", "h", "n", "o", "l", "o", "g", "y">>,
      <<"H", "e", "a", "l", "t", "h", "c", "a", "r", "e">>,
      <<"D", "e", "f", "e", "n", "c", "e">>,
      <<"P", "S", "U">>,
      <<"M", "a", "n", "u", "f", "a", "c", "t", "u", "r", "i", "n", "g">>,
      <<"P", "h", "a", "r", "m", "a">>,
      <<"A", "u", "t", "o">>,
      <<"E", "n", "e", "r", "g", "y">>,
      <<"F", "u", "n", "d">> }

\* longest name, in words
MaxWords == 2

CategoryNames == {Join(ws, <<" ">>) : ws \in SeqsUpTo(CategoryWords, MaxWords)}

CategoryInit ==
    /\ pc = "classify"
    /\ script \in Scripts
    /\ category_arg \in CategoryNames
    /\ category = ""
    /\ ParserIdle /\ CleanIdle /\ ReturnsIdle /\ EnrichIdle

\* 'category': self.determine_category(...)
Classify ==
    /\ pc = "classify"
    /\ category' = determine_category(script, category_arg)
    /\ pc' = "classified"
    /\ UNCHANGED <<script, category_arg, parserVars, cleanVars, returnsVars, enrichVars>>

CategoryNext == Classify

\* determine_category of either script on a name
SpecCategory == CategoryInit /\ [][CategoryNext]_vars

\* the rule table of the specification, rules 1 to 12 in priority order, with the
\* labels as the scripts spell them; rule 13 is "Other"
RuleTable ==
    << [any |-> {<<"e", "l", "s", "s">>, <<"t", "a", "x", " ", "s", "a", "v", "e", "r">>},
        label |-> "Equity - ELSS"],
       [any |-> {<<"f", "l", "e", "x", "i", " ", "c", "a", "p">>},
        label |-> "Equity - Flexi Cap"],
       [any |-> {<<"l", "a", "r", "g", "e", " ", "c", "a", "p">>, <<"b", "l", "u", "e", "c", "h", "i", "p">>, <<"b", "l", "u", "e", " ", "c", "h", "i", "p">>},
        label |-> "Equity - Large Cap"],
       [any |-> {<<"m", "i", "d", " ", "c", "a", "p">>, <<"m", "i", "d", "c", "a", "p">>},
        label |-> "Equity - Mid Cap"],
       [any |-> {<<"s", "m", "a", "l", "l", " ", "c", "a", "p">>, <<"s", "m", "a", "l", "l", "c", "a", "p">>},
        label |-> "Equity - Small Cap"],
       [any |-> {<<"i", "n", "d", "e", "x">>},
        label |-> "Equity - Index"],
       [any |-> {<<"f", "o", "f">>, <<"f", "u", "n", "d", " ", "o", "f", " ", "f", "u", "n", "d", "s">>},
        label |-> "Fund of Funds"],
       [any |-> {<<"l", "i", "q", "u", "i", "d">>},
        label |-> "Debt - Liquid"],
       [any |-> {<<"b", "a", "l", "a", "n", "c", "e", "d">>, <<"h", "y", "b", "r", "i", "d">>, <<"a", "d", "v", "a", "n", "t", "a", "g", "e">>},
        label |-> "Hybrid"],
       [any |-> {<<"d", "e", "b", "t">>, <<"b", "o", "n", "d">>},
        label |-> "Debt"],
       [any |-> {<<"m", "o", "n", "e", "y", " ", "m", "a", "r", "k", "e", "t">>},
        label |-> "Debt - Money Market"],
       [any |-> {<<"i", "n", "f", "r", "a", "s", "t", "r", "u", "c", "t", "u", "r", "e">>, <<"b", "a", "n", "k", "i", "n", "g">>, <<"t", "e", "c", "h", "n", "o", "l", "o", "g", "y">>, <<"h", "e", "a", "l", "t", "h", "c", "a", "r", "e">>, <<"d", "e", "f", "e", "n", "c", "e">>, <<"p", "s", "u">>, <<"m", "a", "n", "u", "f", "a", "c", "t", "u", "r", "i", "n", "g">>, <<"p", "h", "a", "r", "m", "a">>, <<"a", "u", "t", "o">>, <<"e", "n", "e", "r", "g", "y">>},
        label |-> "Equity - Sectoral"] >>

\* the label of the lowest-numbered rule one of whose substrings is in the lowercased
\* name, "Other" when there is none
TableCategory(n) ==
    LET hits == {r \in 1..Len(RuleTable) :
                    \E sub \in RuleTable[r].any : Contains(Lower(n), sub)}
    IN  IF hits = {} THEN "Other" ELSE RuleTable[SetMin(hits)].label

\* C6: the category is that of the lowest-numbered rule of the 13-rule table that
\* matches the lowercased name, "Other" when none does; rule 12 matches each of its
\* ten sector words.
C6_RuleTableInOrder == pc = "classified" => category = TableCategory(category_arg)

\* the same, for determine_category of fetch-fund-data-CLEAN.py alone
CategoryTableHolds_CLEAN ==
    (pc = "classified" /\ script = "CLEAN") => category = TableCategory(category_arg)

\* a name with "large cap" and "index" was classified Large Cap by both scripts
LargeCapBeforeIndex ==
    (/\ pc = "classified"
     /\ Contains(Lower(category_arg), <<"l", "a", "r", "g", "e", " ", "c", "a", "p">>)
     /\ Contains(Lower(category_arg), <<"i", "n", "d", "e", "x">>))
    => category = "Equity - Large Cap"

(***************************************************************************)
(* calculate_returns.  Dates are the 'DD-MM-YYYY' texts of the API and are *)
(* parsed as datetime.strptime(text, '%d-%m-%Y') does; a day is counted    *)
(* from 01-01-0001 as date.toordinal does.  datetime.now() carries a time  *)
(* of day and the parsed dates are midnights, so nav_date <= target_date   *)
(* holds exactly when the day of nav_date is not after the day of          *)
(* target_date.  Returns are kept in hundredths of a percent.              *)
(***************************************************************************)
IsLeapYear(y) == y % 4 = 0 /\ (y % 100 # 0 \/ y % 400 = 0)

DaysInMonth(y, m) ==
    IF m = 2 THEN (IF IsLeapYear(y) THEN 29 ELSE 28)
    ELSE IF m \in {4, 6, 9, 11} THEN 30 ELSE 31

\* the days of year y before month m
RECURSIVE DaysBeforeMonth(_, _)
DaysBeforeMonth(y, m) == IF m = 1 THEN 0 ELSE DaysBeforeMonth(y, m - 1) + DaysInMonth(y, m - 1)

\* date(y, m, d).toordinal()
DayNumber(y, m, d) ==
    365 * (y - 1) + ((y - 1) \div 4) - ((y - 1) \div 100) + ((y - 1) \div 400)
        + DaysBeforeMonth(y, m) + d

AllDigits(s) == s # <<>> /\ \A i \in 1..Len(s) : IsDigit(s[i])

\* datetime.strptime(text, '%d-%m-%Y'): the day number, None on ValueError
DayOfParts(parts) ==
    IF /\ Len(parts) = 3
       /\ AllDigits(parts[1]) /\ Len(parts[1]) <= 2
       /\ AllDigits(parts[2]) /\ Len(parts[2]) <= 2
       /\ AllDigits(parts[3]) /\ Len(parts[3]) = 4
       /\ DigitsVal(parts[3]) >= 1
       /\ DigitsVal(parts[2]) \in 1..12
       /\ DigitsVal(parts[1]) >= 1
       /\ DigitsVal(parts[1]) <= DaysInMonth(DigitsVal(parts[3]), DigitsVal(parts[2]))
    THEN Some(DayNumber(DigitsVal(parts[3]), DigitsVal(parts[2]), DigitsVal(parts[1])))
    ELSE None

ParseDate(text) == DayOfParts(Split(text, "-"))

\* the day datetime.now() falls on
Today == DayNumber(2026, 11, 2)

\* nav_date <= target_date
NotAfter_Strict(nav_day, target_day) == nav_day < target_day

NotAfter(nav_day, target_day) == nav_day <= target_day

\* the body of the try of the for loop of get_nav_n_days_ago on one entry:
\* the NAV returned, None when the loop goes on to the next entry
TryEntry(day, nav, target_day) ==
    IF day = None THEN None
    ELSE IF NotAfter(day[1], target_day) THEN nav
    ELSE None

\* get_nav_n_days_ago(days), the scan standing at entry i
RECURSIVE ScanFrom(_, _, _)
ScanFrom(nav_history, i, target_day) ==
    IF i > Len(nav_history) THEN None
    ELSE IF TryEntry(ParseDate(nav_history[i].date), ParseFloat(nav_history[i].nav),
                     target_day) # None
    THEN TryEntry(ParseDate(nav_history[i].date), ParseFloat(nav_history[i].nav), target_day)
    ELSE ScanFrom(nav_history, i + 1, target_day)

get_nav_n_days_ago(nav_history, days) == ScanFrom(nav_history, 1, Today - days)

\* round(x, 2) of x = 100 * num / den, in hundredths: the nearest integer to
\* 10000 * num / den, the even one of two that are equally near.  The quotient is
\* taken two decimal digits at a time, which keeps the products within 32 bits
\* for NAVs below 2000.
RoundHundredths(num, den) ==
    LET whole == num \div den
        r0 == num - whole * den
        d1 == (100 * r0) \div den
        r1 == 100 * r0 - d1 * den
        d2 == (100 * r1) \div den
        r2 == 100 * r1 - d2 * den
        q == whole * 10000 + d1 * 100 + d2
    IN  IF 2 * r2 < den THEN q
        ELSE IF 2 * r2 > den THEN q + 1
        ELSE IF q % 2 = 0 THEN q ELSE q + 1

\* "if nav_1y: returns['1year'] = round(((current_nav - nav_1y) / nav_1y) * 100, 2)"
HorizonReturn(current_nav, past) ==
    IF past # None /\ past[1] # 0
    THEN Some(RoundHundredths(current_nav - past[1], past[1]))
    ELSE None

Horizons == {"1year", "3year", "5year"}

HorizonDays(h) == IF h = "1year" THEN 365 ELSE IF h = "3year" THEN 1095 ELSE 1825

\* calculate_returns: None, or the dict of the three horizons
calculate_returns(nav_history) ==
    IF Len(nav_history) < 2 THEN None
    ELSE IF ParseFloat(nav_history[1].nav) = None THEN None
    ELSE Some([h \in Horizons |->
                   HorizonReturn(ParseFloat(nav_history[1].nav)[1],
                                 get_nav_n_days_ago(nav_history, HorizonDays(h)))])

(***************************************************************************)
(* calculate_returns called on a NAV history.  The points are dated today, *)
(* 364, 365, 366, 1095 and 1825 days ago and on a day that does not exist; *)
(* their NAV is a number, zero, or not a number.                           *)
(***************************************************************************)
PointToday ==
    [date |-> <<"0", "2", "-", "1", "1", "-", "2", "0", "2", "6">>,
     nav  |-> <<"1", "2", "0", ".", "0">>]

PointTodayNoNav ==
    [date |-> <<"0", "2", "-", "1", "1", "-", "2", "0", "2", "6">>,
     nav  |-> <<"N", ".", "A", ".">>]

Point364 ==
    [date |-> <<"0", "3", "-", "1", "1", "-", "2", "0", "2", "5">>,
     nav  |-> <<"1", "1", "0", ".", "0">>]

Point365 ==
    [date |-> <<"0", "2", "-", "1", "1", "-", "2", "0", "2", "5">>,
     nav  |-> <<"1", "0", "0", ".", "0">>]

Point365High ==
    [date |-> <<"0", "2", "-", "1", "1", "-", "2", "0", "2", "5">>,
     nav  |-> <<"1", "5", "0", ".", "0">>]

Point366 ==
    [date |-> <<"0", "1", "-", "1", "1", "-", "2", "0", "2", "5">>,
     nav  |-> <<"1", "0", "0", ".", "0">>]

Point366NoNav ==
    [date |-> <<"0", "1", "-", "1", "1", "-", "2", "0", "2", "5">>,
     nav  |-> <<"N", ".", "A", ".">>]

Point366Zero ==
    [date |-> <<"0", "1", "-", "1", "1", "-", "2", "0", "2", "5">>,
     nav  |-> <<"0">>]

Point1095 ==
    [date |-> <<"0", "3", "-", "1", "1", "-", "2", "0", "2", "3">>,
     nav  |-> <<"9", "0", ".", "0">>]

Point1825 ==
    [date |-> <<"0", "3", "-", "1", "1", "-", "2", "0", "2", "1">>,
     nav  |-> <<"7", "0">>]

PointNoDate ==
    [date |-> <<"3", "1", "-", "0", "2", "-", "2", "0", "2", "5">>,
     nav  |-> <<"9", "5", ".", "0">>]

HistoryPoints ==
    { PointToday, PointTodayNoNav, Point364, Point365, Point365High, Point366,
      Point366NoNav, Point366Zero, Point1095, Point1825, PointNoDate }

\* longest NAV history, in points
MaxPoints == 3

Histories == SeqsUpTo(HistoryPoints, MaxPoints)

ReturnsInit ==
    /\ pc = "calculate"
    /\ returns_arg \in Histories
    /\ returns_out = None
    /\ script = "CLEAN"
    /\ ParserIdle /\ CleanIdle /\ CategoryIdle /\ EnrichIdle

\* returns = self.calculate_returns(nav_history)
CalculateReturns ==
    /\ pc = "calculate"
    /\ returns_out' = calculate_returns(returns_arg)
    /\ pc' = "calculated"
    /\ UNCHANGED <<script, returns_arg, parserVars, cleanVars, categoryVars, enrichVars>>

ReturnsNext == CalculateReturns

\* calculate_returns on a NAV history
SpecReturns == ReturnsInit /\ [][ReturnsNext]_vars

\* the date of entry i parses and is at or before the cutoff of the horizon
DatedBy(h, i, days) ==
    ParseDate(h[i].date) # None /\ ParseDate(h[i].date)[1] <= Today - days

\* entry i is dated by the cutoff and its NAV is a number
UsableBy(h, i, days) == DatedBy(h, i, days) /\ ParseFloat(h[i].nav) # None

\* v, in hundredths of a percent, is (current - past) / past * 100 rounded to 2 decimals.
\* The NAVs of the history points have one fraction digit: the ten-thousandths are
\* brought down to tenths before they are multiplied.
IsReturn(v, current, past) ==
    LET c == current \div 1000
        p == past \div 1000
        err == v * p - 10000 * (c - p)
    IN  2 * err <= p /\ 2 * err >= 0 - p

\* the horizon value v is the return against the NAV of the first entry that UsableBy
\* admits: absent when there is no such entry, or when that NAV is zero
HorizonFromFirstUsable(h, days, v) ==
    LET usable == {i \in 1..Len(h) : UsableBy(h, i, days)}
    IN  IF usable = {} THEN v = None
        ELSE IF ParseFloat(h[SetMin(usable)].nav)[1] = 0 THEN v = None
        ELSE /\ v # None
             /\ IsReturn(v[1], ParseFloat(h[1].nav)[1], ParseFloat(h[SetMin(usable)].nav)[1])

\* C7 as amended: for each horizon the past NAV is that of the first point, in the
\* given order, whose date is at or before now - h days and whose NAV is a number
\* (points with a malformed date or NAV are passed over); the return is
\* (head - past) / past * 100 rounded to 2 decimals; the horizon is absent when no
\* point qualifies or the past NAV is zero; fewer than 2 points, or a head NAV that
\* is not a number, give no returns at all; head 120.0 and 100.0 366 days ago give 20.0.
C7_Returns ==
    pc = "calculated" =>
        /\ Len(returns_arg) < 2 => returns_out = None
        /\ (Len(returns_arg) >= 2 /\ ParseFloat(returns_arg[1].nav) = None)
              => returns_out = None
        /\ (Len(returns_arg) >= 2 /\ ParseFloat(returns_arg[1].nav) # None)
              => /\ returns_out # None
                 /\ \A hz \in Horizons :
                       HorizonFromFirstUsable(returns_arg, HorizonDays(hz), returns_out[1][hz])
        /\ returns_arg = <<PointToday, Point366>>
              => returns_out = Some([hz \in Horizons |->
                                        IF hz = "1year" THEN Some(2000) ELSE None])

\* a return was computed from a point that follows a point dated by the cutoff
\* whose NAV is not a number
C7_Witness ==
    /\ pc = "calculated"
    /\ returns_out # None
    /\ \E i \in 1..Len(returns_arg), j \in 1..Len(returns_arg) :
          /\ i < j
          /\ DatedBy(returns_arg, i, 365)
          /\ ParseFloat(returns_arg[i].nav) = None
          /\ \A k \in 1..(j - 1) : ~UsableBy(returns_arg, k, 365)
          /\ UsableBy(returns_arg, j, 365)
          /\ returns_out[1]["1year"] # None

\* C7 as stated: the past NAV of a horizon is the NAV of the first point whose date
\* is at or before now - h days, only points with a malformed date being passed
\* over.  Where the stated arithmetic has no value (a head or past NAV that is not
\* a number, a past NAV of zero) nothing is asked but that a horizon that is
\* present was computed from that first point.
HorizonFromFirstDated(h, days, v) ==
    LET dated == {i \in 1..Len(h) : DatedBy(h, i, days)}
    IN  IF dated = {} THEN v = None
        ELSE LET past == ParseFloat(h[SetMin(dated)].nav)
             IN  /\ (past # None /\ past[1] # 0) => v # None
                 /\ v # None => /\ past # None
                                /\ past[1] # 0
                                /\ IsReturn(v[1], ParseFloat(h[1].nav)[1], past[1])

C7_FirstDatedPoint ==
    pc = "calculated" =>
        /\ Len(returns_arg) < 2 => returns_out = None
        /\ (Len(returns_arg) >= 2 /\ ParseFloat(returns_arg[1].nav) # None)
              => /\ returns_out # None
                 /\ \A hz \in Horizons :
                       HorizonFromFirstDated(returns_arg, HorizonDays(hz), returns_out[1][hz])


\* ---------------------------------------------------------------------------
\* enrich-with-mfapi.py: the enrichment batch, its checkpoints and its resume
\* ---------------------------------------------------------------------------

\* if (i + 1) % 50 == 0
CheckpointEvery == 50

\* the largest catalog and the number of invocations followed
MaxFunds == 52

MaxRuns == 2

\* what the user may type at a yes/no prompt
Answers == { <<"y", "e", "s">>, <<"Y", "E", "S">>, <<"n", "o">>, <<>> }

\* proceed.lower() == 'yes', resume.lower() == 'yes'
IsYes(answer) == Lower(answer) = <<"y", "e", "s">>

\* what api.mfapi.in answers for a scheme code: the request raises (timeout,
\* transport error), or there is a status and a body, None when it is not JSON
Api(scheme_code) ==
    LET answers(status, body) == [raised |-> FALSE, status_code |-> status, json |-> body]
        history(points) == Some([has_data |-> TRUE, data |-> points])
    IN  CASE scheme_code = "1001" -> answers(200, history(<<PointToday, Point366>>))
          [] scheme_code = "1002" -> answers(200, history(<<PointToday, Point364>>))
          [] scheme_code = "1003" -> answers(200, history(<<PointToday>>))
          [] scheme_code = "1004" -> answers(200, history(<<PointTodayNoNav, Point366>>))
          [] scheme_code = "2002" -> answers(404, history(<<PointToday, Point366>>))
          [] scheme_code = "2003" -> answers(200, Some([has_data |-> FALSE, data |-> <<>>]))
          [] scheme_code = "2004" -> answers(200, history(<<>>))
          [] scheme_code = "2005" -> answers(200, None)
          [] OTHER -> [raised |-> TRUE, status_code |-> 0, json |-> None]

\* get_fund_data_from_mfapi: the data list, None when there is none
get_fund_data_from_mfapi(scheme_code) ==
    LET response == Api(scheme_code)
    IN  IF response.raised THEN None
        ELSE IF response.status_code = 200
             THEN IF response.json = None THEN None
                  ELSE IF response.json[1].has_data /\ Len(response.json[1].data) > 0
                       THEN Some(response.json[1].data)
                       ELSE None
             ELSE None

\* the scheme codes of the funds the API has returns for, and of those a record
\* fails on: no code at all, an empty code, and the answers of Api that give nothing
OkCodes == << Some("1001"), Some("1002"), Some("1001"), Some("1001") >>

FailCodes ==
    << None, Some("2001"), Some("1003"), Some(""), Some("2002"),
       Some("2003"), Some("2004"), Some("2005"), Some("1004") >>

Patterns == 0..2

\* the fund at 0-based position n of the catalog of pattern p: every fifth fund
\* is one that fails, the kinds of failure taking turns
FundAt(n, p) ==
    [ name |-> "Fund " \o ToString(n),
      scheme_code |-> IF n % 5 = 4
                      THEN FailCodes[(((n \div 5) + p) % Len(FailCodes)) + 1]
                      ELSE OkCodes[((n + p) % Len(OkCodes)) + 1],
      returns |-> None ]

Catalog(size, p) == [n \in 1..size |-> FundAt(n - 1, p)]

CatalogSizes == {0, 1, CheckpointEvery, MaxFunds}

\* if not scheme_code
NoSchemeCode(scheme_code) == scheme_code = None \/ scheme_code = Some("")

\* HandleFund without the failed += 1 of the fetch failure
HandleFund_FetchFailureUncounted(fund, done_ok, done_failed, errs) ==
    IF NoSchemeCode(fund.scheme_code)
    THEN [fund |-> fund, successful |-> done_ok, failed |-> done_failed + 1,
          errors |-> errs, continued |-> TRUE]
    ELSE LET nav_history == get_fund_data_from_mfapi(fund.scheme_code[1])
         IN  IF nav_history # None
             THEN LET returns == calculate_returns(nav_history[1])
                  IN  IF returns # None
                      THEN [fund |-> [fund EXCEPT !.returns = returns],
                            successful |-> done_ok + 1, failed |-> done_failed,
                            errors |-> errs, continued |-> FALSE]
                      ELSE [fund |-> fund, successful |-> done_ok,
                            failed |-> done_failed + 1,
                            errors |-> errs, continued |-> FALSE]
             ELSE [fund |-> fund, successful |-> done_ok, failed |-> done_failed,
                   errors |-> Append(errs, [fund |-> fund.name,
                                            scheme_code |-> fund.scheme_code[1],
                                            error |-> "API fetch failed"]),
                   continued |-> FALSE]

\* HandleFund with a continue after the fetch failure, past the sleep
HandleFund_ContinueAfterFetchFailure(fund, done_ok, done_failed, errs) ==
    IF NoSchemeCode(fund.scheme_code)
    THEN [fund |-> fund, successful |-> done_ok, failed |-> done_failed + 1,
          errors |-> errs, continued |-> TRUE]
    ELSE LET nav_history == get_fund_data_from_mfapi(fund.scheme_code[1])
         IN  IF nav_history # None
             THEN LET returns == calculate_returns(nav_history[1])
                  IN  IF returns # None
                      THEN [fund |-> [fund EXCEPT !.returns = returns],
                            successful |-> done_ok + 1, failed |-> done_failed,
                            errors |-> errs, continued |-> FALSE]
                      ELSE [fund |-> fund, successful |-> done_ok,
                            failed |-> done_failed + 1,
                            errors |-> errs, continued |-> FALSE]
             ELSE [fund |-> fund, successful |-> done_ok, failed |-> done_failed + 1,
                   errors |-> Append(errs, [fund |-> fund.name,
                                            scheme_code |-> fund.scheme_code[1],
                                            error |-> "API fetch failed"]),
                   continued |-> TRUE]

\* the body of the for loop of enrich_funds on one fund, up to the sleep: the fund
\* with its returns attached if any, the counters and the error list after it, and
\* whether the iteration ended at the continue
HandleFund(fund, done_ok, done_failed, errs) ==
    IF NoSchemeCode(fund.scheme_code)
    THEN [fund |-> fund, successful |-> done_ok, failed |-> done_failed + 1,
          errors |-> errs, continued |-> TRUE]
    ELSE LET nav_history == get_fund_data_from_mfapi(fund.scheme_code[1])
         IN  IF nav_history # None
             THEN LET returns == calculate_returns(nav_history[1])
                  IN  IF returns # None
                      THEN [fund |-> [fund EXCEPT !.returns = returns],
                            successful |-> done_ok + 1, failed |-> done_failed,
                            errors |-> errs, continued |-> FALSE]
                      ELSE [fund |-> fund, successful |-> done_ok,
                            failed |-> done_failed + 1,
                            errors |-> errs, continued |-> FALSE]
             ELSE [fund |-> fund, successful |-> done_ok, failed |-> done_failed + 1,
                   errors |-> Append(errs, [fund |-> fund.name,
                                            scheme_code |-> fund.scheme_code[1],
                                            error |-> "API fetch failed"]),
                   continued |-> FALSE]

\* resume_from_progress: the index to start from and the counters after it.  The
\* prompt is shown only when the file reads as JSON with enrichment_progress in it;
\* a missing or unreadable file raises inside the try and 0 is returned.
resume_from_progress_FromZero(file, answer, done_ok, done_failed) ==
    IF file.exists /\ file.content # None /\ file.content[1].progress # None
       /\ IsYes(answer)
    THEN [start |-> 0,
          successful |-> file.content[1].progress[1].successful,
          failed |-> file.content[1].progress[1].failed,
          accepted |-> file.content[1].progress]
    ELSE [start |-> 0, successful |-> done_ok, failed |-> done_failed, accepted |-> None]

\* resume_from_progress returning last_index without setting self.successful and
\* self.failed from the checkpoint
resume_from_progress_FreshCounters(file, answer, done_ok, done_failed) ==
    IF file.exists /\ file.content # None /\ file.content[1].progress # None
       /\ IsYes(answer)
    THEN [start |-> file.content[1].progress[1].last_index,
          successful |-> done_ok,
          failed |-> done_failed,
          accepted |-> file.content[1].progress]
    ELSE [start |-> 0, successful |-> done_ok, failed |-> done_failed, accepted |-> None]

resume_from_progress(file, answer, done_ok, done_failed) ==
    IF file.exists /\ file.content # None /\ file.content[1].progress # None
       /\ IsYes(answer)
    THEN [start |-> file.content[1].progress[1].last_index,
          successful |-> file.content[1].progress[1].successful,
          failed |-> file.content[1].progress[1].failed,
          accepted |-> file.content[1].progress]
    ELSE [start |-> 0, successful |-> done_ok, failed |-> done_failed, accepted |-> None]

\* open(self.output_file, 'w'): the file exists and is empty until the dump
Truncated == [exists |-> TRUE, content |-> None]

\* json.dump(data, f) into the opened file
Dumped(d) == [exists |-> TRUE, content |-> Some(d)]

\* save_progress up to the open: data with enrichment_progress set
WithProgress(d, current_index, done_ok, done_failed) ==
    [d EXCEPT !.progress = Some([last_index |-> current_index,
                                 successful |-> done_ok,
                                 failed |-> done_failed])]

\* save_final up to the open: enrichment_complete and enrichment_stats set,
\* enrichment_progress deleted
WithFinal(d, done_ok, done_failed) ==
    [d EXCEPT !.complete = TRUE,
              !.stats = Some([total_funds |-> Len(d.funds),
                              enriched |-> done_ok,
                              failed |-> done_failed]),
              !.progress = None]

\* sys.exit(code), or the end of the main block
Exit(code, how) ==
    /\ pc' = "exited"
    /\ exit_code' = Some(code)
    /\ outcome' = how

\* proceed = input("Ready to start? (yes/no): "), then enricher = MFApiEnricher()
Prompt ==
    /\ pc = "prompt"
    /\ \E proceed \in Answers :
          IF IsYes(proceed)
          THEN pc' = "resume" /\ UNCHANGED <<exit_code, outcome>>
          ELSE Exit(0, "declined")
    /\ UNCHANGED <<script, run, enrichFiles, enrichMemory, enrichHistory,
                   parserVars, cleanVars, categoryVars, returnsVars>>

\* start_index = enricher.resume_from_progress()
ResumeFromProgress ==
    /\ pc = "resume"
    /\ \E resume \in Answers :
          \E r \in {resume_from_progress(output_file, resume, successful, failed)} :
             /\ start_from' = r.start
             /\ successful' = r.successful
             /\ failed' = r.failed
             /\ resumed_from' = r.accepted
    /\ pc' = "load"
    /\ UNCHANGED <<script, run, enrichFiles, data, total_funds, index, errors, exit_code,
                   outcome, exit_at, handled, last_checkpoint, fetch_gap,
                   parserVars, cleanVars, categoryVars, returnsVars>>

\* enrich_funds up to the for loop: data = json.load(f) of the input file
LoadFunds ==
    /\ pc = "load"
    /\ data' = [NoData EXCEPT !.funds = input_file]
    /\ total_funds' = Len(input_file)
    /\ index' = start_from
    /\ pc' = "loop"
    /\ UNCHANGED <<script, run, enrichFiles, start_from, successful, failed, errors,
                   exit_code, outcome, enrichHistory,
                   parserVars, cleanVars, categoryVars, returnsVars>>

\* one iteration of the for loop up to the continue or to the sleep
HandleRecord ==
    /\ pc = "loop"
    /\ index < total_funds
    /\ \E r \in {HandleFund(data.funds[index + 1], successful, failed, errors)} :
          /\ data' = [data EXCEPT !.funds[index + 1] = r.fund]
          /\ successful' = r.successful
          /\ failed' = r.failed
          /\ errors' = r.errors
          /\ IF r.continued
             THEN index' = index + 1 /\ pc' = "loop"
             ELSE index' = index /\ pc' = "sleep"
    /\ handled' = Append(handled, index)
    /\ fetch_gap' = IF NoSchemeCode(data.funds[index + 1].scheme_code) THEN fetch_gap ELSE 0
    /\ UNCHANGED <<script, run, enrichFiles, total_funds, start_from, exit_code, outcome,
                   exit_at, resumed_from, last_checkpoint,
                   parserVars, cleanVars, categoryVars, returnsVars>>

\* time.sleep(2)
Sleep ==
    /\ pc = "sleep"
    /\ fetch_gap' = fetch_gap + 1
    /\ pc' = "checkpoint"
    /\ UNCHANGED <<script, run, enrichFiles, enrichMemory, exit_code, outcome, exit_at,
                   handled, resumed_from, last_checkpoint,
                   parserVars, cleanVars, categoryVars, returnsVars>>

\* if (i + 1) % 50 == 0: save_progress(data, i + 1), up to the open of the file
SaveProgress ==
    /\ pc = "checkpoint"
    /\ (index + 1) % CheckpointEvery = 0
    /\ data' = WithProgress(data, index + 1, successful, failed)
    /\ output_file' = Truncated
    /\ pc' = "saving"
    /\ UNCHANGED <<script, run, input_file, errors_file, total_funds, start_from, index,
                   successful, failed, errors, exit_code, outcome, enrichHistory,
                   parserVars, cleanVars, categoryVars, returnsVars>>

\* the json.dump of save_progress, then the next iteration
DumpProgress ==
    /\ pc = "saving"
    /\ output_file' = Dumped(data)
    /\ last_checkpoint' = data.progress
    /\ index' = index + 1
    /\ pc' = "loop"
    /\ UNCHANGED <<script, run, input_file, errors_file, data, total_funds, start_from,
                   successful, failed, errors, exit_code, outcome, exit_at, handled,
                   resumed_from, fetch_gap,
                   parserVars, cleanVars, categoryVars, returnsVars>>

\* (i + 1) % 50 != 0: the next iteration
NextRecord ==
    /\ pc = "checkpoint"
    /\ (index + 1) % CheckpointEvery # 0
    /\ index' = index + 1
    /\ pc' = "loop"
    /\ UNCHANGED <<script, run, enrichFiles, data, total_funds, start_from, successful,
                   failed, errors, exit_code, outcome, enrichHistory,
                   parserVars, cleanVars, categoryVars, returnsVars>>

\* the for loop is exhausted: the summary, whose success rate divides by
\* total_funds (ZeroDivisionError, caught by except Exception: sys.exit(1)),
\* then save_final up to the open of the file
FinishLoop ==
    /\ pc = "loop"
    /\ index >= total_funds
    /\ IF total_funds = 0
       THEN /\ Exit(1, "error")
            /\ UNCHANGED <<data, output_file>>
       ELSE /\ data' = WithFinal(data, successful, failed)
            /\ output_file' = Truncated
            /\ pc' = "final"
            /\ UNCHANGED <<exit_code, outcome>>
    /\ UNCHANGED <<script, run, input_file, errors_file, total_funds, start_from, index,
                   successful, failed, errors, enrichHistory,
                   parserVars, cleanVars, categoryVars, returnsVars>>

\* the json.dump of save_final
DumpFinal ==
    /\ pc = "final"
    /\ output_file' = Dumped(data)
    /\ last_checkpoint' = None
    /\ pc' = "errorlog"
    /\ UNCHANGED <<script, run, input_file, errors_file, enrichMemory, exit_code, outcome,
                   exit_at, handled, resumed_from, fetch_gap, parserVars, cleanVars, categoryVars, returnsVars>>

\* if self.errors: the error log is written; return True and the main block ends
SaveErrorLog ==
    /\ pc = "errorlog"
    /\ errors_file' = IF errors # <<>> THEN Some(errors) ELSE errors_file
    /\ Exit(0, "complete")
    /\ UNCHANGED <<script, run, input_file, output_file, enrichMemory, enrichHistory,
                   parserVars, cleanVars, categoryVars, returnsVars>>

\* where enrich_funds stands inside the try of the main block
InBatch == {"load", "loop", "sleep", "checkpoint", "saving", "final", "errorlog"}

\* Ctrl+C inside the try: except KeyboardInterrupt prints and sys.exit(0)
Interrupt ==
    /\ pc \in InBatch
    /\ exit_at' = pc
    /\ Exit(0, "interrupted")
    /\ UNCHANGED <<script, run, enrichFiles, enrichMemory, handled, resumed_from,
                   last_checkpoint, fetch_gap,
                   parserVars, cleanVars, categoryVars, returnsVars>>

\* the script is run again: the files are as the last invocation left them
RunAgain ==
    /\ pc = "exited"
    /\ run < MaxRuns
    /\ run' = run + 1
    /\ pc' = "prompt"
    /\ data' = NoData
    /\ total_funds' = 0
    /\ start_from' = 0
    /\ index' = 0
    /\ successful' = 0
    /\ failed' = 0
    /\ errors' = <<>>
    /\ exit_code' = None
    /\ outcome' = "running"
    /\ exit_at' = ""
    /\ handled' = <<>>
    /\ resumed_from' = None
    /\ fetch_gap' = -1
    /\ UNCHANGED <<script, enrichFiles, last_checkpoint,
                   parserVars, cleanVars, categoryVars, returnsVars>>

EnrichInit ==
    /\ pc = "prompt"
    /\ script = "enrich-with-mfapi"
    /\ run = 1
    /\ \E size \in CatalogSizes, p \in Patterns : input_file = Catalog(size, p)
    /\ output_file = NoFile
    /\ errors_file = None
    /\ last_checkpoint = None
    /\ fetch_gap = -1
    /\ FreshMemory
    /\ ParserIdle /\ CleanIdle /\ CategoryIdle /\ ReturnsIdle

EnrichNext ==
    \/ Prompt
    \/ ResumeFromProgress
    \/ LoadFunds
    \/ HandleRecord
    \/ Sleep
    \/ SaveProgress
    \/ DumpProgress
    \/ NextRecord
    \/ FinishLoop
    \/ DumpFinal
    \/ SaveErrorLog
    \/ Interrupt
    \/ RunAgain

\* invocations of enrich-with-mfapi.py on one catalog
SpecEnrich == EnrichInit /\ [][EnrichNext]_vars


\* the API has a history for the fund's scheme code from which returns are computed
HasReturnsAtApi(fund) == fund.scheme_code \in {Some("1001"), Some("1002")}

\* the progress record of the checkpoint the output file holds, None if it holds none
CheckpointInFile ==
    IF output_file.exists /\ output_file.content # None
    THEN output_file.content[1].progress
    ELSE None

\* C8: a batch resumed from an accepted checkpoint (last_index k, successful s,
\* failed f) handles the indices k, k+1, ... in catalog order and none below k, and
\* when it completes it has handled up to N-1 and its counters are (s, f) plus the
\* outcomes of the records it handled.
C8_ResumeFromCheckpoint ==
    resumed_from # None =>
        LET k == resumed_from[1].last_index
            newly == k..(Len(input_file) - 1)
        IN  /\ handled = [j \in 1..Len(handled) |-> k + j - 1]
            /\ outcome = "complete" =>
                  /\ Len(handled) = Cardinality(newly)
                  /\ successful = resumed_from[1].successful
                        + Cardinality({n \in newly : HasReturnsAtApi(input_file[n + 1])})
                  /\ failed = resumed_from[1].failed
                        + Cardinality({n \in newly : ~HasReturnsAtApi(input_file[n + 1])})

\* a batch resumed from last_index 50 with 40 successful and 10 failed has completed
\* after handling the records that were left
C8_Witness ==
    /\ outcome = "complete"
    /\ resumed_from = Some([last_index |-> 50, successful |-> 40, failed |-> 10])
    /\ Len(handled) = Len(input_file) - 50
    /\ Len(handled) > 0

\* C9: when the record at a 1-based position that is a multiple of 50 has been
\* handled, whatever its outcome, the output file holds a checkpoint with that
\* position as last_index and the current counters before the next record is handled.
C9_CheckpointCadence ==
    (pc = "loop" /\ handled # <<>> /\ index % CheckpointEvery = 0) =>
        CheckpointInFile = Some([last_index |-> index,
                                 successful |-> successful,
                                 failed |-> failed])

\* C10: when an interrupt stops the batch between two records, after record i was
\* handled, the output file holds a checkpoint with last_index i and the current
\* counters.
C10_CheckpointOnInterrupt ==
    (outcome = "interrupted" /\ exit_at \in {"loop", "sleep", "checkpoint"}
        /\ handled # <<>>) =>
        CheckpointInFile = Some([last_index |-> start_from + Len(handled),
                                 successful |-> successful,
                                 failed |-> failed])


\* C11: an interrupt at any point of the batch, the write of a checkpoint included,
\* leaves the last checkpoint whose write completed readable in the output file, and
\* never leaves the output file cut short (which sends the next invocation back to
\* index 0).
C11_CheckpointDurable ==
    outcome = "interrupted" =>
        /\ last_checkpoint # None => CheckpointInFile = last_checkpoint
        /\ exit_at = "saving" => ~(output_file.exists /\ output_file.content = None)


\* the fund is one the batch cannot enrich: it has no scheme code, or its fetch
\* times out, answers with a status other than 200, with a body that is not JSON or
\* with no data, or its history gives no returns
FailsPerRecord(fund) ==
    fund.scheme_code \in { None, Some(""), Some("2001"), Some("2002"), Some("2003"),
                           Some("2004"), Some("2005"), Some("1003"), Some("1004") }

\* a step that handles such a fund adds one to failed, leaves successful alone and
\* leaves the batch running, at the next record or at the sleep before it
C12_Step ==
    (handled' # handled /\ handled' # <<>> /\ FailsPerRecord(input_file[index + 1])) =>
        /\ failed' = failed + 1
        /\ successful' = successful
        /\ outcome' = "running"
        /\ pc' \in {"loop", "sleep"}

\* the records are handled one after the other from start_from on, and the process
\* ends in error only on an empty catalog, never on a record
C12_Inv ==
    /\ handled = [j \in 1..Len(handled) |-> start_from + j - 1]
    /\ outcome = "error" => input_file = <<>>

\* C12: a record without scheme code, with a fetch that errors, times out, answers
\* non-200 or unparseable, or with returns that cannot be computed adds exactly one
\* to failed, leaves successful unchanged, and the batch goes on with the next record.
C12_FailureDoesNotAbort == []C12_Inv /\ [][C12_Step]_vars

\* a fund of each kind of failure was handled and the record after it was handled too
C12_Witness ==
    /\ outcome = "running"
    /\ \A code \in { None, Some("2001"), Some("2002"), Some("2005"), Some("1003") } :
          \E j \in 1..(Len(handled) - 1) : input_file[handled[j] + 1].scheme_code = code
    /\ failed >= 5


\* the invocation went through the whole catalog: it ended, and it ended neither
\* at the prompt nor by an interrupt
WentThroughCatalog == pc = "exited" /\ outcome \notin {"declined", "interrupted"}

\* C13: when the batch has gone through the full catalog, of whatever size, the
\* empty one included, the output file holds the final catalog: enrichment_complete
\* and enrichment_stats are there, enrichment_progress is not, and a following
\* invocation that would accept a checkpoint finds none.
C13_FinalFileWritten ==
    WentThroughCatalog =>
        /\ output_file.exists
        /\ output_file.content # None
        /\ output_file.content[1].complete
        /\ output_file.content[1].stats # None
        /\ output_file.content[1].progress = None
        /\ resume_from_progress(output_file, <<"y", "e", "s">>, 0, 0).accepted = None


\* once the download has failed no file of output_dir is there, the run does
\* nothing but exit, and it exits with a code other than 0
C14_Inv ==
    fetch_errors # <<>> =>
        /\ out_files = NoFiles
        /\ funds_data = <<>>
        /\ pc \in {"failed", "exited"}
        /\ pc = "exited" => (parser_exit # None /\ parser_exit # Some(0))

\* no step of a run whose download failed writes or changes a file
C14_Step == fetch_errors' # <<>> => out_files' = out_files

\* C14: when the feed download fails the parser run aborts with none of
\* funds-data.json, funds-index.json and metadata.json written or modified, and the
\* process exits with a non-zero code.
C14_FatalFetch == []C14_Inv /\ [][C14_Step]_vars

\* a run whose download failed has exited
C14_Witness ==
    /\ pc = "exited"
    /\ fetch_errors # <<>>
    /\ parser_exit = Some(1)
    /\ out_files = NoFiles


\* the parser scripts exit with 0 exactly when the three files were written
ParserExitCodes ==
    (pc = "exited" /\ parser_exit # None) =>
        (parser_exit = Some(0) <=>
            (fetch_errors = <<>> /\ out_files.funds_data # None
                /\ out_files.funds_index # None /\ out_files.metadata # None))

\* C15: the enrichment process exits with 0 only on full success: the exit code is
\* 0 when the batch completed and the final file was written, and it is not 0 when
\* the batch failed and when the user declined at the confirmation prompt.
C15_ExitCodes ==
    pc = "exited" => (exit_code = Some(0) <=> outcome = "complete")


\* the scheme codes for which the API answers 200 with no data field or an empty list
NoHistoryCodes == {"2003", "2004"}

\* C16: a response whose data is absent or an empty list is 'no history available',
\* not an error: handling such a fund adds no entry to the error list, and the
\* enrichment-errors file reports no API fetch failure for it.
C16_NoHistoryIsNotAnError ==
    /\ \A j \in 1..Len(errors) : errors[j].scheme_code \notin NoHistoryCodes
    /\ errors_file # None =>
          \A j \in 1..Len(errors_file[1]) : errors_file[1][j].scheme_code \notin NoHistoryCodes


\* C17: between two consecutive fetches of an invocation at least one whole sleep
\* is completed: a step that fetches (it handles a fund that has a scheme code) is
\* taken only when no fetch was made yet or a sleep was completed since the last
\* one, also when funds without scheme code were skipped in between.
C17_DelayBetweenFetches ==
    [][(/\ handled' # handled
        /\ handled' # <<>>
        /\ input_file[index + 1].scheme_code \notin {None, Some("")})
       => fetch_gap # 0]_vars

\* a fund was fetched, the next one was skipped for its missing scheme code, and
\* the one after it was fetched in turn
C17_Witness ==
    /\ pc = "sleep"
    /\ index >= 2
    /\ Len(handled) >= 3
    /\ input_file[index + 1].scheme_code \notin {None, Some("")}
    /\ input_file[index].scheme_code \in {None, Some("")}
    /\ input_file[index - 1].scheme_code \notin {None, Some("")}
    /\ fetch_gap = 0


\* C18: the category stored in every catalog record is the rule table evaluated on
\* the lowercased normalized name, the record's key, so that the text normalization
\* strips has no part in it and names with the same key get the same category.
C18_CategoryFromKey ==
    \A n \in 1..Len(funds_data) :
        funds_data[n].fund.category = TableCategory(funds_data[n].key)


\* the NAV field of line f is empty or is not a number
NavUnparseable(f) == Strip(f[5]) = <<>> \/ ParseFloat(Strip(f[5])) = None

\* C19: a record line whose NAV field is empty or not a number, and whose key is new,
\* adds a record with no nav and with scheme_code, name, nav_date, amc and category
\* set as for any other record; the parsing goes on and no error is recorded.
C19_Step ==
    (/\ pc = "lines"
     /\ line_no <= Len(feed)
     /\ IsRecordLine(feed[line_no])
     /\ NavUnparseable(feed[line_no])
     /\ ~HasKey(funds_data, KeyOf(feed[line_no])))
    => /\ Len(funds_data') = Len(funds_data) + 1
       /\ LET e == funds_data'[Len(funds_data')]
              f == feed[line_no]
          IN  /\ e.key = KeyOf(f)
              /\ e.fund.nav = None
              /\ e.fund.scheme_code = Strip(f[1])
              /\ e.fund.name = Strip(f[4])
              /\ e.fund.nav_date = Strip(f[6])
              /\ e.fund.amc = current_amc
              /\ e.fund.category =
                     determine_category(script, CategorySource(script, Strip(f[4]), KeyOf(f)))
       /\ pc' = "lines"
       /\ fetch_errors' = fetch_errors

C19_UnparseableNavKept == [][C19_Step]_vars

\* two record lines have been parsed into the catalog, the first with a NAV that is
\* not a number, and the parser script has ended with exit code 0
C19_Witness ==
    /\ parser_exit = Some(0)
    /\ \E i \in 1..Len(feed) :
          /\ IsRecordLine(feed[i])
          /\ Strip(feed[i][5]) # <<>>
          /\ NavUnparseable(feed[i])
          /\ \E n \in 1..Len(funds_data) :
                /\ BuiltFrom(funds_data[n], feed[i])
                /\ funds_data[n].fund.nav = None
                /\ n < Len(funds_data)


\* the records of the catalog in the output file that carry returns the enricher attached
EnrichedInFile ==
    {n \in 1..Len(output_file.content[1].funds) :
        output_file.content[1].funds[n].returns # None}

\* C20: when a batch that was resumed from a checkpoint has completed, every record
\* enriched before the interruption carries its returns in the final catalog, and the
\* number of records carrying returns there equals enrichment_stats.enriched.
C20_EnrichmentSurvivesResume ==
    (/\ outcome = "complete"
     /\ resumed_from # None
     /\ output_file.exists
     /\ output_file.content # None
     /\ output_file.content[1].stats # None)
    => /\ \A n \in 1..resumed_from[1].last_index :
              HasReturnsAtApi(input_file[n])
                  => output_file.content[1].funds[n].returns # None
       /\ Cardinality(EnrichedInFile) = output_file.content[1].stats[1].enriched


\* the index the batch of this invocation counts from: the last_index of the
\* checkpoint it resumed from, 0 when it resumed from none
CountedFrom == IF resumed_from = None THEN 0 ELSE resumed_from[1].last_index

\* C21: in every state of the enrichment batch successful + failed is the number of
\* catalog records handled so far, counted from index 0; every checkpoint in the
\* output file has successful + failed = last_index, and a completed batch has
\* successful + failed = the number of funds.
C21_CounterAccounting ==
    /\ successful + failed = CountedFrom + Len(handled)
    /\ pc = "loop" => successful + failed = index
    /\ CheckpointInFile # None =>
           CheckpointInFile[1].successful + CheckpointInFile[1].failed
               = CheckpointInFile[1].last_index
    /\ outcome = "complete" => successful + failed = Len(input_file)

\* a batch resumed from a checkpoint has handled more records and stands between two
\* records; a record without a scheme code is among those counted
C21_Witness ==
    /\ pc = "loop"
    /\ resumed_from # None
    /\ handled # <<>>
    /\ successful + failed = index
    /\ \E n \in 1..index : NoSchemeCode(input_file[n].scheme_code)


\* a line of 6 or more fields whose code or whose name is empty
IsRejectedLine(f) == Len(f) >= 6 /\ (Strip(f[1]) = <<>> \/ Strip(f[4]) = <<>>)

\* C22: a line of 6 or more fields with an empty code or an empty name is skipped
\* with no other effect: the catalog and the current AMC stay as they were, and the
\* parsing goes on.
C22_Step ==
    (/\ pc = "lines"
     /\ line_no <= Len(feed)
     /\ IsRejectedLine(feed[line_no]))
    => /\ funds_data' = funds_data
       /\ fund_count' = fund_count
       /\ current_amc' = current_amc
       /\ pc' = "lines"

C22_RejectedLineSkipped == [][C22_Step]_vars


\* the fund carries returns with a computed value for at least one horizon
HasComputedReturn(fund) ==
    fund.returns # None /\ \E h \in Horizons : fund.returns[1][h] # None

\* C23: a record is counted in successful only when at least one of its three
\* horizons has a computed return; a record handled without any computed return is
\* counted in failed and gets no returns attached.
C23_Step ==
    (pc = "loop" /\ Len(handled') = Len(handled) + 1)
    => IF HasComputedReturn(data'.funds[index + 1])
       THEN successful' = successful + 1 /\ failed' = failed
       ELSE /\ successful' = successful
            /\ failed' = failed + 1
            /\ data'.funds[index + 1].returns = None

C23_SuccessNeedsAReturn == [][C23_Step]_vars

====
